---- MODULE Spec2Model ----
(***************************************************************************)
(* Model of the Sentinel status display firmware (src/src/main.cpp):       *)
(* the device-mode flags, the telemetry ring buffers, the poller and the   *)
(* cooperative loop() with the web handlers it dispatches.                 *)
(*                                                                         *)
(* loop() is modelled statement group by statement group; pc is the        *)
(* position of the single thread of control, so the steps of one           *)
(* iteration always run in the order of the source.  connectToWiFi() is    *)
(* entered in the step of its caller and runs its blocking retry loop and  *)
(* its outcome in the next step, so that Connecting is a state.            *)
(***************************************************************************)
EXTENDS Integers, Sequences, FiniteSets, TLC

VARIABLES
  \* configuration storage (main.cpp 245-253)
  s_saved_ssid, s_saved_password, s_saved_ip, s_saved_port, s_saved_auth,
  s_config_complete, s_wifi_connected, s_success_start_time, s_showing_success,
  \* stats update globals and history buffers (main.cpp 2-22)
  s_stats_active, s_last_stats_update,
  s_cpu_hist, s_ram_hist, s_hist_idx, s_hist_full,
  s_disk_used_pct, s_uptime_seconds, s_last_timestamp_iso,
  s_layout, s_touch_down,
  \* thread of control
  pc,            \* position in setup()/loop()/connectToWiFi()
  caller,        \* who is calling connectToWiFi(): "setup", "save" or "" (nobody)
  \* external collaborators
  now,           \* millis()
  wifi_mode,     \* WiFi.mode(): "OFF", "AP" or "STA"
  dns_running,   \* s_dns started / stopped
  \* observation of the run (not program state)
  events,        \* what the last step did: renders, requests, poll attempts
  cpu_log,       \* every value ever stored in s_cpu_hist, in order
  ram_log,       \* every value ever stored in s_ram_hist, in order
  last_poll_at,  \* millis() of the previous call of updateStatsFromServer, -1 if none
  loops,         \* completed loop() iterations
  requests,      \* save and reset requests served so far
  last_touched,  \* whether the previous touch check of loop() reported a touch
  presses,       \* presses begun: touch reported after none was reported
  toggles,       \* layout switches made by the touch check of loop()
  \* a helper function called on its own
  called,        \* the function and its arguments
  returned,      \* what it returned
  \* a second run of the device, replayed step by step
  twin           \* its telemetry, and the step being replayed

cfgvars  == <<s_saved_ssid, s_saved_password, s_saved_ip, s_saved_port, s_saved_auth,
              s_config_complete>>
histvars == <<s_cpu_hist, s_ram_hist, s_hist_idx, s_hist_full>>
scalvars == <<s_disk_used_pct, s_uptime_seconds, s_last_timestamp_iso>>
logvars  == <<cpu_log, ram_log>>
netvars  == <<wifi_mode, dns_running>>
touchvars == <<last_touched, presses, toggles>>
callvars == <<called, returned>>
vars == <<s_saved_ssid, s_saved_password, s_saved_ip, s_saved_port, s_saved_auth,
          s_config_complete, s_wifi_connected, s_success_start_time, s_showing_success,
          s_stats_active, s_last_stats_update,
          s_cpu_hist, s_ram_hist, s_hist_idx, s_hist_full,
          s_disk_used_pct, s_uptime_seconds, s_last_timestamp_iso,
          s_layout, s_touch_down, pc, caller, now,
          wifi_mode, dns_running,
          events, cpu_log, ram_log, last_poll_at, loops, requests,
          last_touched, presses, toggles, called, returned, twin>>

----------------------------------------------------------------------------
\* Program constants

HIST_SIZE == 120
LAYOUT_CHARTS == 0
LAYOUT_CLOCK == 1
LAYOUT_MAX == 2
MAX_ATTEMPTS == 60
CONNECT_DELAY_MS == 500
SUCCESS_INTERVAL_MS == 1500
STATS_INTERVAL_MS == 2000
PAIRING_DELAY_MS == 2000
SETUP_DELAY_MS == 200 + 100 + 50 + 2000
LOOP_DELAY_MS == 10
HTTP_OK == 200

\* Bounds of the model

MaxLoops == 3
MaxRequests == 1
MaxAppends == 2
HistAppends == 245
MaxHeight == 64
MaxUptime == 130

----------------------------------------------------------------------------
\* Inputs

\* unsigned long subtraction, as in millis() - s_last_stats_update.  The clock
\* of the model stays far below 2^31, so a difference that wraps around is
\* above 2^31; it is represented by the largest integer.
Wrapped == 2147483647
Sub32(a, b) == IF a >= b THEN a - b ELSE Wrapped

EmptyBody == [f \in {} |-> 0]

BodyA == [cpu |-> 37, memory |-> 62, disk |-> 40, uptime |-> 3661,
          timestamp |-> "2024-05-01T10:20:30Z"]
BodyNoMemory == [cpu |-> 12, disk |-> 55, uptime |-> 59,
                 timestamp |-> "2024-05-02T00:00:01Z"]

\* the n-th sample of a server whose readings follow a fixed pattern; its
\* processor reading leaves the range 0..100 at times
BodyPattern(n) == [cpu |-> (n % 131) - 15, memory |-> (7 * n + 3) % 101, disk |-> n % 100,
                   uptime |-> n,
                   timestamp |-> IF n % 2 = 0 THEN "2024-05-01T10:20:30Z"
                                              ELSE "2024-05-01T10:20:32Z"]

Reply(code, json_ok, body) == [code |-> code, json_ok |-> json_ok, body |-> body]

GoodReplies == {Reply(HTTP_OK, TRUE, BodyA)}
PartialReplies == {Reply(HTTP_OK, TRUE, BodyNoMemory)}
FailedReplies == {Reply(HTTP_OK, FALSE, EmptyBody),   \* body is not JSON
                  Reply(404, FALSE, EmptyBody),       \* non-success status
                  Reply(-1, FALSE, EmptyBody)}        \* transport failure

ExpectedFields == {"cpu", "memory", "disk", "uptime", "timestamp"}
WellFormed(r) == r.code = HTTP_OK /\ r.json_ok /\ ExpectedFields \subseteq DOMAIN r.body

\* the replies the metrics server may give to the next poll
Replies == IF Len(cpu_log) < MaxAppends
           THEN GoodReplies \cup PartialReplies \cup FailedReplies
           ELSE FailedReplies

\* the reply of a server that always answers, with its next reading
PatternReplies == {Reply(HTTP_OK, TRUE, BodyPattern(Len(cpu_log)))}

Config(ssid, password, ip, port, auth) ==
  [ssid |-> ssid, password |-> password, ip |-> ip, port |-> port, auth |-> auth]

FullConfig == Config("net", "pw", "10.0.0.2", "8080", "tok")
SavedConfigs == {FullConfig,
                 Config("far", "pw", "10.0.0.2", "8080", "tok"),
                 Config("", "pw", "10.0.0.2", "8080", "tok"),
                 Config("net", "", "10.0.0.2", "8080", "tok"),
                 Config("net", "pw", "10.0.0.2", "", "tok")}

\* The half-seconds after WiFi.begin(ssid) at which WiFi.status() starts to
\* read WL_CONNECTED: the network "net" is in range and associates within
\* half a second; any other network is out of range and associates only as
\* the retries run out (60) or not in time (61).
AssocTimes(ssid) == IF ssid = "net" THEN {1} ELSE {60, 61}

\* time a loop() iteration without a request takes beyond its delay(10)
ExtraDelays == {0, 1990}

----------------------------------------------------------------------------
\* Events observed in one step

Render(l) == [op |-> "render", what |-> IF l = LAYOUT_CHARTS THEN "charts" ELSE "clock", n |-> 0]
HttpGet(what) == [op |-> "http_get", what |-> what, n |-> 0]
PollCall(kind, gap) == [op |-> "poll", what |-> kind, n |-> gap]
Waited(k) == [op |-> "wait", what |-> "delay(500)", n |-> k]
Screen(what) == [op |-> "screen", what |-> what, n |-> 0]

\* time since the previous call of updateStatsFromServer (-1: there was none)
Gap == IF last_poll_at < 0 THEN -1 ELSE now - last_poll_at

----------------------------------------------------------------------------
\* Device mode, read off the flags that encode it

Mode == IF pc = "connecting" THEN "Connecting"
        ELSE IF ~s_wifi_connected THEN "Provisioning"
        ELSE IF s_showing_success THEN "Pairing"
        ELSE "Monitoring"

----------------------------------------------------------------------------
\* Sample history

\* drawLineChartArea: number of points and the i-th point, oldest first
Points(idx, full) == IF full THEN HIST_SIZE ELSE idx
\* the position getVal(i) reads (lines 52-56)
Pos(idx, full, i) == IF full THEN (idx + i) % HIST_SIZE ELSE i
GetVal(data, idx, full, i) == data[Pos(idx, full, i)]
\* the samples the chart reads, oldest first; with fewer than two points it
\* returns before reading any (line 49)
Snapshot(data, idx, full) ==
  IF Points(idx, full) <= 1 THEN <<>>
  ELSE [i \in 1..Points(idx, full) |-> GetVal(data, idx, full, i - 1)]

NextIdx_nomod(idx) == idx + 1
NextIdx(idx) == (idx + 1) % HIST_SIZE
NextFull(idx, full) == IF NextIdx(idx) = 0 THEN TRUE ELSE full

\* ArduinoJson accessors: a missing member converts to zero / the empty string
AsNumber(body, key) == IF key \in DOMAIN body THEN body[key] ELSE 0
AsString(body, key) == IF key \in DOMAIN body THEN body[key] ELSE ""

ConfigMissing_all(ip, port, auth) == ip = "" /\ port = "" /\ auth = ""
ConfigMissing(ip, port, auth) == ip = "" \/ port = "" \/ auth = ""

\* the response is taken: HTTP 200 and deserializeJson reported no error
Accepted(r) == r.code = HTTP_OK /\ r.json_ok

\* the values an accepted response stores in each channel at the cursor
CpuWrites(body) == <<AsNumber(body, "cpu")>>
RamWrites_ifpresent(body) ==
  IF "memory" \in DOMAIN body THEN <<body["memory"]>> ELSE <<>>
RamWrites(body) == <<AsNumber(body, "memory")>>
Store(data, idx, writes) == IF writes = <<>> THEN data ELSE [data EXCEPT ![idx] = writes[1]]

----------------------------------------------------------------------------
\* Rendering helpers

\* IEEE-754 single precision with round to nearest even, for the values
\* mapValueToY computes with: a float is m * 2^(-k) with an integer mantissa
\* m of at most 24 bits.
MANT == 16777216

\* n / d rounded to the nearest integer, ties to even
RoundDiv(n, d) ==
  LET q == n \div d
      r == n % d
  IN IF 2 * r > d \/ (2 * r = d /\ q % 2 = 1) THEN q + 1 ELSE q

\* the least k >= from with h * 2^k >= 100 * 2^23
RECURSIVE Scale(_, _)
Scale(h, from) == IF h * (2 ^ from) >= 100 * (MANT \div 2) THEN from ELSE Scale(h, from + 1)

\* height / 100.0f
F32Div100(h) ==
  IF h = 0 THEN [m |-> 0, k |-> 0]
  ELSE LET k == Scale(h, 0) IN [m |-> RoundDiv(h * (2 ^ k), 100), k |-> k]

\* the least s >= from with p < 2^(24 + s)
RECURSIVE Excess(_, _)
Excess(p, from) == IF p \div (2 ^ from) < MANT THEN from ELSE Excess(p, from + 1)

\* a * f in single precision, for an integer a in 0..100
F32MulInt(a, f) ==
  LET p == a * f.m
      s == Excess(p, 0)
  IN [m |-> RoundDiv(p, 2 ^ s), k |-> f.k - s]

\* (int) f
F32ToInt(f) == IF f.k >= 0 THEN f.m \div (2 ^ f.k) ELSE f.m * (2 ^ (0 - f.k))

Clamp(pct) == IF pct < 0 THEN 0 ELSE IF pct > 100 THEN 100 ELSE pct

\* mapValueToY (main.cpp 25-29), for a whole percentage
mapValueToY(pct, yTop, height) ==
  yTop + F32ToInt(F32MulInt(100 - Clamp(pct), F32Div100(height)))

\* text is a sequence of characters
Digits == <<"0", "1", "2", "3", "4", "5", "6", "7", "8", "9">>

\* String(n) for an unsigned n
RECURSIVE Decimal(_)
Decimal(n) == IF n < 10 THEN <<Digits[n + 1]>>
              ELSE Decimal(n \div 10) \o <<Digits[(n % 10) + 1]>>

Pad2_nopad(n) == Decimal(n)
\* (n < 10 ? "0" : "") + String(n)
Pad2(n) == (IF n < 10 THEN <<"0">> ELSE <<>>) \o Decimal(n)

\* drawUptimeTopRight (main.cpp 86-101): the text printed after "Up: "
drawUptimeTopRight(uptime) ==
  LET days == uptime \div 86400
      s1 == uptime % 86400
      hours == s1 \div 3600
      s2 == s1 % 3600
      minutes == s2 \div 60
      seconds == s2 % 60
      hms == Pad2(hours) \o <<":">> \o Pad2(minutes) \o <<":">> \o Pad2(seconds)
  IN IF days > 0 THEN Decimal(days) \o <<"d", " ">> \o hms ELSE hms

----------------------------------------------------------------------------
\* Initial state: the statics as declared (main.cpp 2-22, 245-253)

DeviceInit ==
  /\ s_saved_ssid = "" /\ s_saved_password = "" /\ s_saved_ip = ""
  /\ s_saved_port = "" /\ s_saved_auth = ""
  /\ s_config_complete = FALSE /\ s_wifi_connected = FALSE
  /\ s_success_start_time = 0 /\ s_showing_success = FALSE
  /\ s_stats_active = FALSE /\ s_last_stats_update = 0
  /\ s_cpu_hist = [i \in 0..(HIST_SIZE - 1) |-> 0]
  /\ s_ram_hist = [i \in 0..(HIST_SIZE - 1) |-> 0]
  /\ s_hist_idx = 0 /\ s_hist_full = FALSE
  /\ s_disk_used_pct = 0 /\ s_uptime_seconds = 0 /\ s_last_timestamp_iso = ""
  /\ s_layout = LAYOUT_CHARTS /\ s_touch_down = FALSE
  /\ pc = "setup" /\ caller = ""
  /\ now = 0 /\ wifi_mode = "OFF" /\ dns_running = FALSE
  /\ events = <<>> /\ cpu_log = <<>> /\ ram_log = <<>> /\ last_poll_at = -1
  /\ loops = 0 /\ requests = 0
  /\ last_touched = FALSE /\ presses = 0 /\ toggles = 0

NoCall == [fn |-> "", args |-> <<>>]
NoRet == [of |-> "", y |-> 0, text |-> <<>>]

NoTwin == [phase |-> "off"]

Init == DeviceInit /\ called = NoCall /\ returned = NoRet /\ twin = NoTwin

----------------------------------------------------------------------------
\* updateStatsFromServer (main.cpp 145-176), called at time t with layout lay
\* active; r is the reply of the metrics server if a request is issued and
\* pre are the events of the step so far.

updateStatsFromServer(r, lay, pre, kind) ==
  LET call == PollCall(kind, Gap) IN
  /\ last_poll_at' = now
  /\ IF ConfigMissing(s_saved_ip, s_saved_port, s_saved_auth)
     THEN /\ events' = pre \o <<call>>
          /\ UNCHANGED <<histvars, scalvars, logvars>>
     ELSE IF Accepted(r)
     THEN /\ s_cpu_hist' = Store(s_cpu_hist, s_hist_idx, CpuWrites(r.body))
          /\ s_ram_hist' = Store(s_ram_hist, s_hist_idx, RamWrites(r.body))
          /\ s_disk_used_pct' = AsNumber(r.body, "disk")
          /\ s_hist_idx' = NextIdx(s_hist_idx)
          /\ s_hist_full' = NextFull(s_hist_idx, s_hist_full)
          /\ s_uptime_seconds' = AsNumber(r.body, "uptime")
          /\ s_last_timestamp_iso' = AsString(r.body, "timestamp")
          /\ cpu_log' = cpu_log \o CpuWrites(r.body)
          /\ ram_log' = ram_log \o RamWrites(r.body)
          /\ events' = pre \o <<call, HttpGet("poll"), Render(lay)>>
     ELSE /\ events' = pre \o <<call, HttpGet("poll")>>
          /\ UNCHANGED <<histvars, scalvars, logvars>>

\* pairWithSentinelServer (main.cpp 197-218): the events it produces
pairWithSentinelServer(r) ==
  IF ConfigMissing(s_saved_ip, s_saved_port, s_saved_auth)
  THEN <<Screen("pairing failed")>>
  ELSE IF r.code = HTTP_OK
  THEN <<HttpGet("pair"), Screen("paired")>>
  ELSE <<HttpGet("pair"), Screen("pairing failed")>>

\* pairWithSentinelServer: the value it returns (lines 201, 211, 216)
pairReturn_anystatus(r) ==
  IF ConfigMissing(s_saved_ip, s_saved_port, s_saved_auth) THEN FALSE
  ELSE r.code > 0
pairReturn(r) ==
  IF ConfigMissing(s_saved_ip, s_saved_port, s_saved_auth) THEN FALSE
  ELSE IF r.code = HTTP_OK THEN TRUE
  ELSE FALSE

----------------------------------------------------------------------------
\* connectToWiFi (main.cpp 644-689)

\* entry: WiFi.mode(WIFI_STA); WiFi.begin(...); attempts = 0
connectBegin(who) ==
  /\ pc' = "connecting" /\ caller' = who
  /\ wifi_mode' = "STA"
  /\ UNCHANGED dns_running

\* the turns of the while loop of lines 656-660, which runs while the status
\* is not WL_CONNECTED and attempts < 60, when the status becomes
\* WL_CONNECTED assoc half-seconds after WiFi.begin
Waits_nolimit(assoc) == assoc
Waits(assoc) == IF assoc < MAX_ATTEMPTS THEN assoc ELSE MAX_ATTEMPTS
\* WiFi.status() == WL_CONNECTED at line 662, after that many waits
StatusConnected_ignored(assoc, waits) == TRUE
StatusConnected(assoc, waits) == assoc <= waits

\* the while loop with its waits delay(500), the if/else of lines 662-688,
\* then the rest of the caller; r is the reply to the pairing request
connectToWiFi(assoc, r) ==
  LET waits == Waits(assoc) IN
  /\ pc = "connecting"
  /\ IF StatusConnected(assoc, waits)
     THEN /\ s_wifi_connected' = TRUE
          /\ dns_running' = FALSE
          /\ wifi_mode' = "STA"
          \* displayWiFiSuccess (line 747): millis() after the waits
          /\ s_success_start_time' = now + waits * CONNECT_DELAY_MS
          /\ s_showing_success' = TRUE
          \* pairWithSentinelServer, which ends in displayPairingResult's delay
          /\ events' = <<Waited(waits), Screen("success")>> \o pairWithSentinelServer(r)
          /\ now' = now + waits * CONNECT_DELAY_MS + PAIRING_DELAY_MS
                       + (IF caller = "save" THEN LOOP_DELAY_MS ELSE 0)
     ELSE /\ s_wifi_connected' = FALSE
          /\ wifi_mode' = "AP"
          /\ dns_running' = TRUE
          /\ events' = <<Waited(waits)>> \o (IF caller = "setup" THEN <<Screen("boot")>> ELSE <<>>)
          /\ now' = now + waits * CONNECT_DELAY_MS
                       + (IF caller = "save" THEN LOOP_DELAY_MS ELSE 0)
          /\ UNCHANGED <<s_success_start_time, s_showing_success>>
  /\ pc' = "loop_success" /\ caller' = ""
  /\ loops' = IF caller = "save" THEN loops + 1 ELSE loops
  /\ UNCHANGED <<cfgvars, s_stats_active, s_last_stats_update, histvars, scalvars,
                 s_layout, s_touch_down, touchvars, callvars, logvars,
                 last_poll_at, requests>>

----------------------------------------------------------------------------
\* setup (main.cpp 567-642) with loadConfig (510-540); stored is the record
\* in /config.json when has_file, else there is no readable file

setup(has_file, stored) ==
  /\ pc = "setup"
  /\ IF ~has_file
     THEN UNCHANGED cfgvars
     ELSE /\ s_saved_ssid' = stored.ssid /\ s_saved_password' = stored.password
          /\ s_saved_ip' = stored.ip /\ s_saved_port' = stored.port
          /\ s_saved_auth' = stored.auth
          /\ s_config_complete' = TRUE
  /\ now' = now + SETUP_DELAY_MS
  /\ IF s_saved_ssid' /= ""
     THEN /\ connectBegin("setup")
          /\ events' = <<Screen("boot")>>
     ELSE /\ wifi_mode' = "AP" /\ dns_running' = TRUE
          /\ pc' = "loop_success"
          /\ events' = <<Screen("boot"), Screen("boot")>>
          /\ UNCHANGED <<caller>>
  /\ UNCHANGED <<s_wifi_connected, s_success_start_time, s_showing_success,
                 s_stats_active, s_last_stats_update, histvars, scalvars,
                 s_layout, s_touch_down, touchvars, callvars, logvars, last_poll_at, loops, requests>>

----------------------------------------------------------------------------
\* loop (main.cpp 761-793)

\* displayMainScreen (751-759), entered from the success-screen check
displayMainScreen(r) ==
  /\ s_layout' = LAYOUT_CHARTS
  /\ s_stats_active' = TRUE
  /\ s_last_stats_update' = Sub32(now, STATS_INTERVAL_MS)
  /\ updateStatsFromServer(r, LAYOUT_CHARTS, <<Render(LAYOUT_CHARTS)>>, "forced")

SuccessElapsed_reversed ==
  s_showing_success /\ Sub32(now, s_success_start_time) <= SUCCESS_INTERVAL_MS
SuccessElapsed_tenfold ==
  s_showing_success /\ Sub32(now, s_success_start_time) >= 10 * SUCCESS_INTERVAL_MS
SuccessElapsed_ifdisklow ==
  /\ s_showing_success /\ Sub32(now, s_success_start_time) >= SUCCESS_INTERVAL_MS
  /\ s_disk_used_pct < 50
SuccessElapsed == s_showing_success /\ Sub32(now, s_success_start_time) >= SUCCESS_INTERVAL_MS

\* lines 763-767
loop_success(r) ==
  /\ pc = "loop_success"
  /\ IF SuccessElapsed
     THEN /\ s_showing_success' = FALSE
          /\ displayMainScreen(r)
     ELSE /\ events' = <<>>
          /\ UNCHANGED <<s_showing_success, s_layout, s_stats_active, s_last_stats_update,
                         histvars, scalvars, logvars, last_poll_at>>
  /\ pc' = "loop_touch"
  /\ UNCHANGED <<cfgvars, s_wifi_connected, s_success_start_time, s_touch_down, touchvars, callvars,
                 caller, now, netvars, loops, requests>>

NextLayout_same(l) == l % LAYOUT_MAX
NextLayout(l) == (l + 1) % LAYOUT_MAX
ToggleOn_level(touched, down) == touched
ToggleOn(touched, down) == touched /\ ~down

\* drawLineChartArea (31-70) is given the samples as const float* and hands
\* each of them to mapValueToY by value: the samples its caller holds once the
\* chart is drawn
SamplesAfterDraw_clampedinplace(data, idx, full) ==
  [i \in DOMAIN data |-> IF full \/ i < idx THEN Clamp(data[i]) ELSE data[i]]
SamplesAfterDraw(data, idx, full) == data

\* lines 769-779; touched is lcd.getTouchRawX() >= 0
loop_touch(touched) ==
  /\ pc = "loop_touch"
  /\ IF touched
     THEN /\ s_touch_down' = TRUE
          /\ IF ToggleOn(touched, s_touch_down)
             THEN /\ s_layout' = NextLayout(s_layout)
                  /\ events' = <<Render(s_layout')>>
                  /\ s_cpu_hist' = SamplesAfterDraw(s_cpu_hist, s_hist_idx, s_hist_full)
                  /\ s_ram_hist' = SamplesAfterDraw(s_ram_hist, s_hist_idx, s_hist_full)
                  /\ toggles' = toggles + 1
             ELSE /\ events' = <<>>
                  /\ UNCHANGED <<s_layout, toggles, s_cpu_hist, s_ram_hist>>
     ELSE /\ s_touch_down' = FALSE
          /\ events' = <<>>
          /\ UNCHANGED <<s_layout, toggles, s_cpu_hist, s_ram_hist>>
  /\ last_touched' = touched
  /\ presses' = IF touched /\ ~last_touched THEN presses + 1 ELSE presses
  /\ pc' = "loop_poll"
  /\ UNCHANGED <<cfgvars, s_wifi_connected, s_success_start_time, s_showing_success,
                 s_stats_active, s_last_stats_update, s_hist_idx, s_hist_full, scalvars,
                 caller, now, netvars, logvars, last_poll_at, loops, requests, callvars>>

PollDue(active, t, last) == active /\ Sub32(t, last) >= STATS_INTERVAL_MS

\* lines 781-785
loop_poll(r) ==
  /\ pc = "loop_poll"
  /\ IF PollDue(s_stats_active, now, s_last_stats_update)
     THEN /\ s_last_stats_update' = now
          /\ updateStatsFromServer(r, s_layout, <<>>, "cadence")
     ELSE /\ events' = <<>>
          /\ UNCHANGED <<s_last_stats_update, histvars, scalvars, logvars, last_poll_at>>
  /\ pc' = "loop_client"
  /\ UNCHANGED <<cfgvars, s_wifi_connected, s_success_start_time, s_showing_success,
                 s_stats_active, s_layout, s_touch_down, touchvars, callvars,
                 caller, now, netvars, loops, requests>>

\* the end of an iteration: delay(10), plus whatever else the iteration took
\* (an iteration that serves a request is taken to last its delay only)
loopEnd(extra) ==
  /\ now' = now + LOOP_DELAY_MS + extra
  /\ pc' = "loop_success"
  /\ loops' = loops + 1

\* lines 787-792 when s_http.handleClient() finds no request, or one routed
\* to handleRoot / handleScan, which only read the state
loop_idle(extra) ==
  /\ pc = "loop_client"
  /\ loopEnd(extra)
  /\ events' = <<>>
  /\ UNCHANGED <<cfgvars, s_wifi_connected, s_success_start_time, s_showing_success,
                 s_stats_active, s_last_stats_update, histvars, scalvars,
                 s_layout, s_touch_down, touchvars, callvars, caller, netvars, logvars,
                 last_poll_at, requests>>

ShouldConnect_anyssid(ssid, password) == Len(password) >= 0
ShouldConnect(ssid, password) == Len(ssid) > 0 /\ Len(password) >= 0

\* handleSave (432-479) dispatched by s_http.handleClient(): body is the
\* posted record when json_ok, file_ok is the result of SPIFFS.open
handleSave(json_ok, body, file_ok) ==
  /\ pc = "loop_client"
  /\ events' = <<>>
  /\ IF ~json_ok
     THEN /\ loopEnd(0)
          /\ UNCHANGED <<cfgvars, caller, netvars>>
     ELSE /\ s_saved_ssid' = body.ssid /\ s_saved_password' = body.password
          /\ s_saved_ip' = body.ip /\ s_saved_port' = body.port
          /\ s_saved_auth' = body.auth
          /\ IF file_ok
             THEN /\ s_config_complete' = TRUE
                  /\ IF ShouldConnect(body.ssid, body.password)
                     THEN /\ connectBegin("save")
                          /\ UNCHANGED <<now, loops>>
                     ELSE /\ loopEnd(0)
                          /\ UNCHANGED <<caller, netvars>>
             ELSE /\ loopEnd(0)
                  /\ UNCHANGED <<s_config_complete, caller, netvars>>
  /\ UNCHANGED <<s_wifi_connected, s_success_start_time, s_showing_success,
                 s_stats_active, s_last_stats_update, histvars, scalvars,
                 s_layout, s_touch_down, touchvars, callvars, logvars, last_poll_at>>
  /\ requests' = requests + 1

\* handleReset (481-508) dispatched by s_http.handleClient()
handleReset ==
  /\ pc = "loop_client"
  /\ s_saved_ssid' = "" /\ s_saved_password' = "" /\ s_saved_ip' = ""
  /\ s_saved_port' = "" /\ s_saved_auth' = ""
  /\ s_config_complete' = FALSE
  /\ s_wifi_connected' = FALSE
  /\ wifi_mode' = "AP" /\ dns_running' = TRUE
  /\ events' = <<Screen("boot")>>
  /\ loopEnd(0)
  /\ UNCHANGED <<s_success_start_time, s_showing_success,
                 s_stats_active, s_last_stats_update, histvars, scalvars,
                 s_layout, s_touch_down, touchvars, callvars, caller, logvars,
                 last_poll_at>>
  /\ requests' = requests + 1

----------------------------------------------------------------------------
\* The device with its environment: any stored configuration, any request of
\* the operator, any reply of the metrics server

StoredConfigs == {FullConfig, Config("far", "pw", "10.0.0.2", "8080", "tok"),
                  Config("net", "pw", "", "8080", "tok")}

Boot == \E has_file \in BOOLEAN, stored \in StoredConfigs : setup(has_file, stored) /\ UNCHANGED twin
Associate == \E assoc \in AssocTimes(s_saved_ssid), r \in GoodReplies \cup FailedReplies :
               connectToWiFi(assoc, r) /\ UNCHANGED twin
LoopSuccess == loops < MaxLoops /\ \E r \in Replies : loop_success(r) /\ UNCHANGED twin
LoopTouch == \E touched \in BOOLEAN : loop_touch(touched) /\ UNCHANGED twin
LoopPoll == \E r \in Replies : loop_poll(r) /\ UNCHANGED twin
LoopIdle == \E extra \in ExtraDelays : loop_idle(extra) /\ UNCHANGED twin
Save == requests < MaxRequests /\
        \E json_ok \in BOOLEAN, body \in SavedConfigs, file_ok \in BOOLEAN :
           handleSave(json_ok, body, file_ok) /\ UNCHANGED twin
Reset == requests < MaxRequests /\ handleReset /\ UNCHANGED twin

Next ==
  \/ Boot
  \/ Associate
  \/ LoopSuccess
  \/ LoopTouch
  \/ LoopPoll
  \/ LoopIdle
  \/ Save
  \/ Reset

Spec == Init /\ [][Next]_vars

----------------------------------------------------------------------------
\* The device left alone in Monitoring: it boots with a complete stored
\* configuration, the network is in range, the server answers every poll with
\* its next reading, the operator only touches the screen, and every loop()
\* iteration takes one polling interval.

HistBoot == setup(TRUE, FullConfig) /\ UNCHANGED twin
HistAssociate == \E r \in GoodReplies : connectToWiFi(1, r) /\ UNCHANGED twin
HistSuccess == Len(cpu_log) < HistAppends /\ \E r \in PatternReplies : loop_success(r) /\ UNCHANGED twin
HistTouch == \E touched \in BOOLEAN : loop_touch(touched) /\ UNCHANGED twin
HistPoll == \E r \in PatternReplies : loop_poll(r) /\ UNCHANGED twin
HistIdle == loop_idle(STATS_INTERVAL_MS - LOOP_DELAY_MS) /\ UNCHANGED twin

NextHist ==
  \/ HistBoot
  \/ HistAssociate
  \/ HistSuccess
  \/ HistTouch
  \/ HistPoll
  \/ HistIdle

SpecHist == Init /\ [][NextHist]_vars

----------------------------------------------------------------------------
\* Vocabulary of the properties

\* a step in which updateStatsFromServer runs and, if it issues a request,
\* receives the reply r: the cadence poll of loop() or the forced poll of
\* displayMainScreen()
PollStep(r) ==
  \/ loop_poll(r) /\ PollDue(s_stats_active, now, s_last_stats_update)
  \/ loop_success(r) /\ SuccessElapsed

ServerConfigured == s_saved_ip /= "" /\ s_saved_port /= "" /\ s_saved_auth /= ""

PollCalled(es) == \E i \in DOMAIN es : es[i].op = "poll"
PollRequested(es) == \E i \in DOMAIN es : es[i] = HttpGet("poll")
\* a render that follows the call of updateStatsFromServer within the step
RenderedByPoll(es) == \E i, j \in DOMAIN es : i < j /\ es[i].op = "poll" /\ es[j].op = "render"

Min(a, b) == IF a <= b THEN a ELSE b
LastN(seq, k) == SubSeq(seq, Len(seq) - k + 1, Len(seq))

ConfigCleared == /\ s_saved_ssid = "" /\ s_saved_password = "" /\ s_saved_ip = ""
                 /\ s_saved_port = "" /\ s_saved_auth = ""

----------------------------------------------------------------------------
\* C1: a poll answered by HTTP 200 with a parseable body that lacks an
\* expected field (the memory percentage) leaves the history samples, the
\* cursor, the wrap flag and the scalar telemetry unchanged and triggers no
\* redraw.  The code stores zero for the missing member instead.
C1_AllOrNothing ==
  [][\A r \in PartialReplies :
       (PollStep(r) /\ ServerConfigured)
         => (UNCHANGED <<histvars, scalvars>> /\ ~RenderedByPoll(events'))]_vars

\* C3: while the device is in Provisioning no poll request is issued to the
\* metrics server.  The code keeps s_stats_active set after a reset or a
\* failed re-association, so the cadence poll still runs.
C3_NoPollWhileProvisioning == (Mode = "Provisioning") => ~PollRequested(events)

\* C4: a configuration reset, in any mode, leaves the machine in Provisioning
\* with the five stored fields cleared and with polling disabled.
C4_ResetDisablesPolling ==
  [][handleReset
       => (Mode' = "Provisioning" /\ ConfigCleared' /\ ~s_stats_active')]_vars

\* C7: in Monitoring every poll attempt other than the forced one on entry
\* comes at least 2000 ms after the previous attempt.
C7_Cadence ==
  (Mode = "Monitoring") =>
    \A i \in DOMAIN events :
      (events[i].op = "poll" /\ events[i].what = "cadence") => events[i].n >= STATS_INTERVAL_MS

----------------------------------------------------------------------------
\* C2: after n appends from an empty history the window the renderer reads,
\* oldest first, has length min(n, 120) and holds the last min(n, 120)
\* appended values in insertion order, and the wrap flag is set iff n >= 120.
C2_SnapshotIsRecentWindow ==
  LET n == Len(cpu_log)
      k == Min(n, HIST_SIZE)
  IN /\ Snapshot(s_cpu_hist, s_hist_idx, s_hist_full) = LastN(cpu_log, k)
     /\ Snapshot(s_ram_hist, s_hist_idx, s_hist_full) = LastN(ram_log, k)
     /\ s_hist_full <=> n >= HIST_SIZE

\* C8: the two channels advance in lock-step: a step stores one sample in
\* both channels and advances the shared cursor by one, or stores in neither.
C8_LockStep ==
  [][LET dc == Len(cpu_log') - Len(cpu_log)
         dr == Len(ram_log') - Len(ram_log)
     IN /\ dc = dr /\ dc \in {0, 1}
        /\ s_hist_idx' = (s_hist_idx + dc) % HIST_SIZE
        /\ Len(cpu_log') = Len(ram_log')
        /\ (s_cpu_hist' /= s_cpu_hist \/ s_ram_hist' /= s_ram_hist) => dc = 1]_vars

\* two polls were stored, the second from a body without the memory member
C8_Witness ==
  /\ Len(cpu_log) = 2 /\ Len(ram_log) = 2 /\ s_hist_idx = 2
  /\ cpu_log[2] = BodyNoMemory.cpu /\ ram_log[2] = 0 /\ s_ram_hist[1] = 0

\* C9: a poll skipped for an empty host, port or credential, or ended by a
\* non-200 status or a transport failure, changes neither history nor scalar
\* telemetry and draws nothing; with an incomplete server configuration no
\* request is issued.
C9_FailedPollChangesNothing ==
  [][/\ \A r \in GoodReplies \cup PartialReplies \cup FailedReplies :
          (PollStep(r) /\ ~ServerConfigured)
            => /\ UNCHANGED <<histvars, scalvars>>
               /\ ~RenderedByPoll(events')
               /\ ~PollRequested(events')
     /\ \A r \in {f \in FailedReplies : f.code /= HTTP_OK} :
          (PollStep(r) /\ ServerConfigured)
            => /\ UNCHANGED <<histvars, scalvars>>
               /\ ~RenderedByPoll(events')
               /\ PollRequested(events')]_vars

\* a poll was skipped for an empty port after samples had been collected
C9_Witness ==
  /\ PollCalled(events) /\ ~PollRequested(events)
  /\ s_saved_port = "" /\ s_saved_ip /= "" /\ s_saved_auth /= ""
  /\ Len(cpu_log) > 0

\* C10: a successful poll stores exactly one sample at the cursor, advances
\* the cursor by one modulo 120, replaces disk percentage, uptime and
\* timestamp by the values of the response and redraws the active layout
\* without changing the layout selection.
C10_SuccessfulPoll ==
  [][\A r \in GoodReplies \cup PatternReplies :
       (PollStep(r) /\ ServerConfigured)
         => /\ s_cpu_hist' = [s_cpu_hist EXCEPT ![s_hist_idx] = r.body.cpu]
            /\ s_ram_hist' = [s_ram_hist EXCEPT ![s_hist_idx] = r.body.memory]
            /\ cpu_log' = Append(cpu_log, r.body.cpu)
            /\ ram_log' = Append(ram_log, r.body.memory)
            /\ s_hist_idx' = (s_hist_idx + 1) % HIST_SIZE
            /\ s_disk_used_pct' = r.body.disk
            /\ s_uptime_seconds' = r.body.uptime
            /\ s_last_timestamp_iso' = r.body.timestamp
            /\ events'[Len(events')] = Render(s_layout')
            /\ Cardinality({i \in DOMAIN events' : events'[i].op = "render"})
                 = (IF loop_poll(r) THEN 1 ELSE 2)
            /\ loop_poll(r) => s_layout' = s_layout]_vars

\* the poll that wrapped the cursor to zero was drawn in the Clock layout
C10_Witness ==
  /\ s_hist_idx = 0 /\ s_hist_full /\ Len(cpu_log) = HIST_SIZE
  /\ s_layout = LAYOUT_CLOCK
  /\ events /= <<>> /\ events[Len(events)] = Render(LAYOUT_CLOCK)

----------------------------------------------------------------------------
\* the step serves a reset request
ResetStep == handleReset
\* the step serves a save request whose record was stored and satisfies P
SavedStep(P(_)) ==
  \E body \in SavedConfigs : P(body) /\ handleSave(TRUE, body, TRUE)

HasSsid(body) == body.ssid /= ""
HasPassword(body) == body.password /= ""

\* C5 as stated: once in Monitoring the mode stays Monitoring until a
\* configuration reset; no other event moves it out.
C5_MonitoringUntilReset ==
  [][(Mode = "Monitoring" /\ ~ResetStep) => Mode' = "Monitoring"]_vars

\* C5 amended: the mode leaves Monitoring only by a configuration reset or
\* by a saved configuration that carries a non-empty SSID (which starts a new
\* association); poll results, touches and timers never move it out.
C5_MonitoringUntilResetOrSave ==
  [][(Mode = "Monitoring" /\ Mode' /= "Monitoring")
       => (ResetStep \/ SavedStep(HasSsid))]_vars

\* Monitoring survived polls, a layout toggle and a save without SSID
C5_Witness ==
  /\ Mode = "Monitoring" /\ s_saved_ssid = "" /\ s_config_complete
  /\ s_layout = LAYOUT_CLOCK /\ Len(cpu_log) > 0 /\ loops >= 2

\* the parts of C6 that do not depend on which field triggers the connection
C6_Scenario(Trigger(_)) ==
  \* no stored configuration: Provisioning
  /\ (\E stored \in StoredConfigs : setup(FALSE, stored)) => Mode' = "Provisioning"
  \* configuration changed: Connecting
  /\ (Mode = "Provisioning" /\ SavedStep(Trigger)) => Mode' = "Connecting"
  \* association succeeded: Pairing
  /\ (Mode = "Connecting" /\ \E assoc \in 0..MAX_ATTEMPTS, r \in GoodReplies \cup FailedReplies :
                                       connectToWiFi(assoc, r))
       => Mode' = "Pairing"
  \* display interval elapsed: Monitoring, with a poll in the same step
  /\ (Mode = "Pairing" /\ pc = "loop_success"
        /\ Sub32(now, s_success_start_time) >= SUCCESS_INTERVAL_MS)
       => /\ Mode' = "Monitoring"
          /\ PollCalled(events')
          /\ ServerConfigured => PollRequested(events')
  /\ (Mode = "Pairing" /\ Mode' = "Monitoring")
       => Sub32(now, s_success_start_time) >= SUCCESS_INTERVAL_MS
  \* the order of the modes
  /\ Mode = "Provisioning" => Mode' \in {"Provisioning", "Connecting"}
  /\ Mode = "Connecting" => Mode' \in {"Connecting", "Pairing", "Provisioning"}
  /\ Mode = "Pairing" => Mode' \in {"Pairing", "Monitoring"}

\* C6 as stated: from Provisioning a configuration-changed event with a
\* non-empty network credential leads to Connecting, a successful association
\* to Pairing, the elapsed display interval to Monitoring with a poll on entry.
C6_CredentialStartsConnecting == [][C6_Scenario(HasPassword)]_vars

\* C6 amended: it is a non-empty SSID, whatever the network credential, that
\* makes a saved configuration start the connection; the rest as stated.
C6_SsidStartsConnecting == [][C6_Scenario(HasSsid)]_vars

\* booted without stored configuration, one save of an open network (empty
\* credential), association after one wait, and the first iteration after it
\* entered Monitoring and polled
C6_Witness ==
  /\ Mode = "Monitoring" /\ pc = "loop_touch" /\ requests = 1 /\ loops = 1
  /\ s_saved_ssid /= "" /\ s_saved_password = ""
  /\ now = SETUP_DELAY_MS + CONNECT_DELAY_MS + PAIRING_DELAY_MS + LOOP_DELAY_MS
  /\ PollRequested(events)

----------------------------------------------------------------------------
\* the server configuration a poll uses: host, port and bearer credential
PairedServerConfig == <<s_saved_ip, s_saved_port, s_saved_auth>>

\* C11: the paired server configuration (host, port, bearer credential) does
\* not change while the machine is in Monitoring.  handleSave overwrites the
\* fields in every mode, and stays in Monitoring when the saved SSID is empty
\* or the file cannot be written.
C11_ServerConfigFixedInMonitoring ==
  [][(Mode = "Monitoring" /\ Mode' = "Monitoring") => PairedServerConfig' = PairedServerConfig]_vars

----------------------------------------------------------------------------
\* The device with an operator and a metrics server that is down: every
\* stored configuration, save, reset and association outcome, no telemetry.
\* connectToWiFi is a blocking call: once entered it runs to its end, each
\* of its waits being a delay(500) that returns; so the step that ends it is
\* taken whenever it is enabled.  loop() is called again and again by the
\* runtime, so its first statement group is reached whenever it is next.

ServerDown == {Reply(-1, FALSE, EmptyBody)}

ConnBoot == \E has_file \in BOOLEAN, stored \in StoredConfigs : setup(has_file, stored) /\ UNCHANGED twin
ConnAssociate == \E assoc \in AssocTimes(s_saved_ssid), r \in GoodReplies \cup FailedReplies :
                   connectToWiFi(assoc, r) /\ UNCHANGED twin
ConnSuccess == loops < MaxLoops /\ \E r \in ServerDown : loop_success(r) /\ UNCHANGED twin
ConnTouch == \E touched \in BOOLEAN : loop_touch(touched) /\ UNCHANGED twin
ConnPoll == \E r \in ServerDown : loop_poll(r) /\ UNCHANGED twin
ConnIdle == \E extra \in ExtraDelays : loop_idle(extra) /\ UNCHANGED twin
ConnSave == requests < MaxRequests /\
            \E json_ok \in BOOLEAN, body \in SavedConfigs, file_ok \in BOOLEAN :
               handleSave(json_ok, body, file_ok) /\ UNCHANGED twin
ConnReset == requests < MaxRequests /\ handleReset /\ UNCHANGED twin

NextConn ==
  \/ ConnBoot
  \/ ConnAssociate
  \/ ConnSuccess
  \/ ConnTouch
  \/ ConnPoll
  \/ ConnIdle
  \/ ConnSave
  \/ ConnReset

SpecConn == Init /\ [][NextConn]_vars /\ WF_vars(ConnAssociate) /\ WF_vars(ConnSuccess)

\* C12: the Connecting phase always terminates: it makes at most 60
\* half-second waits, ends in Pairing if the association succeeded within
\* them and otherwise ends in Provisioning with the access point and the DNS
\* responder re-enabled.
C12_ConnectingTerminates ==
  /\ [][\A assoc \in 0..(MAX_ATTEMPTS + 1), r \in GoodReplies \cup FailedReplies :
          (Mode = "Connecting" /\ connectToWiFi(assoc, r))
            => /\ events'[1].op = "wait" /\ events'[1].n <= MAX_ATTEMPTS
               /\ events'[1].n = Min(assoc, MAX_ATTEMPTS)
               /\ now' - now <= MAX_ATTEMPTS * CONNECT_DELAY_MS + PAIRING_DELAY_MS + LOOP_DELAY_MS
               /\ IF assoc <= MAX_ATTEMPTS
                  THEN Mode' = "Pairing"
                  ELSE Mode' = "Provisioning" /\ wifi_mode' = "AP" /\ dns_running']_vars
  /\ ((Mode = "Connecting") ~> (Mode /= "Connecting"))

\* the retries ran out on a network out of range and the access point is back
C12_Witness ==
  /\ events /= <<>> /\ events[1] = Waited(MAX_ATTEMPTS)
  /\ Mode = "Provisioning" /\ wifi_mode = "AP" /\ dns_running
  /\ s_saved_ssid = "far"

\* C13: when the association fails after the retries are exhausted, the
\* stored configuration (SSID, network credential, server host, port, server
\* credential) is unchanged and the mode is Provisioning.
C13_FailureKeepsConfig ==
  [][\A r \in GoodReplies \cup FailedReplies :
       (Mode = "Connecting" /\ connectToWiFi(MAX_ATTEMPTS + 1, r))
         => /\ Mode' = "Provisioning"
            /\ UNCHANGED <<s_saved_ssid, s_saved_password, s_saved_ip, s_saved_port,
                           s_saved_auth, s_config_complete>>
            /\ ~s_wifi_connected']_vars

\* a saved configuration for a network out of range survived the failed
\* association it started
C13_Witness ==
  /\ Mode = "Provisioning" /\ events /= <<>> /\ events[1] = Waited(MAX_ATTEMPTS)
  /\ requests = 1 /\ s_config_complete
  /\ s_saved_ssid = "far" /\ s_saved_password = "pw" /\ ServerConfigured

\* C14: after a successful association the machine always reaches
\* Monitoring, whatever the outcome of the pairing validation (missing
\* configuration, non-200 status, success): nothing is between Pairing and
\* Monitoring but the first statement group of the next loop() iteration
\* (as long as the model lets another iteration start).
C14_PairingReachesMonitoring ==
  /\ [][(Mode = "Pairing") => (Mode' = "Monitoring" /\ s_stats_active')]_vars
  /\ ((Mode = "Pairing" /\ loops < MaxLoops) ~> (Mode = "Monitoring"))

\* Monitoring was entered although the pairing request could not even be
\* sent: the stored configuration names a network but no server host
C14_Witness ==
  /\ Mode = "Monitoring" /\ pc = "loop_touch"
  /\ events /= <<>> /\ events[1] = Render(LAYOUT_CHARTS)
  /\ s_saved_ssid /= "" /\ s_saved_ip = ""
  /\ s_stats_active

----------------------------------------------------------------------------
\* C15: in Monitoring a layout toggle (a touch that begins) changes the
\* active layout to the other one and renders the new layout in the same
\* loop iteration, before the poll check of that iteration and whether or
\* not a poll is due; the toggle issues no poll, stores nothing and leaves
\* the device mode alone.
C15_ToggleRendersAtOnce ==
  [][(Mode = "Monitoring" /\ ~s_touch_down /\ loop_touch(TRUE))
       => /\ s_layout' /= s_layout /\ s_layout' \in {LAYOUT_CHARTS, LAYOUT_CLOCK}
          /\ events' = <<Render(s_layout')>>
          /\ ~PollCalled(events') /\ ~PollRequested(events')
          /\ pc' = "loop_poll"
          /\ Mode' = "Monitoring"
          /\ UNCHANGED <<histvars, scalvars, s_last_stats_update, s_stats_active, now>>]_vars

\* the Clock layout was rendered by a toggle at a moment when no poll is due
C15_Witness ==
  /\ Mode = "Monitoring" /\ pc = "loop_poll"
  /\ events = <<Render(LAYOUT_CLOCK)>> /\ s_layout = LAYOUT_CLOCK /\ s_touch_down
  /\ ~PollDue(s_stats_active, now, s_last_stats_update)

\* C16: layout toggling is edge-triggered: over any sequence of loop
\* iterations the layout has been switched exactly once per press (maximal
\* run of iterations in which a touch is reported), however long the press is
\* held, and the layout shown is the one that number of switches leads to.
C16_OneTogglePerPress ==
  /\ toggles = presses
  /\ s_touch_down = last_touched
  /\ s_layout = toggles % LAYOUT_MAX

\* a second press, after a release, is being held: the layout was switched
\* twice in ten iterations and is Charts again
C16_Witness ==
  /\ presses = 2 /\ toggles = 2 /\ last_touched /\ s_layout = LAYOUT_CHARTS
  /\ loops = 10 /\ pc = "loop_success"

----------------------------------------------------------------------------
\* C18: every processor and memory value stored in the sample history is
\* within 0..100, whatever the server response carries.  The code stores the
\* values of the response as they are; only mapValueToY clamps, when drawing.
C18_StoredValuesInRange ==
  \A i \in 0..(HIST_SIZE - 1) :
    /\ 0 <= s_cpu_hist[i] /\ s_cpu_hist[i] <= 100
    /\ 0 <= s_ram_hist[i] /\ s_ram_hist[i] <= 100

----------------------------------------------------------------------------
\* The rendering helpers called on their own, with arguments from bounded
\* sets; the device itself stays as constructed.

devicevars == <<cfgvars, s_wifi_connected, s_success_start_time, s_showing_success,
                s_stats_active, s_last_stats_update, histvars, scalvars,
                s_layout, s_touch_down, pc, caller, now, netvars,
                events, logvars, last_poll_at, loops, requests, touchvars>>

PctInputs == (0 - 3)..103
TopInputs == {0, 15}
HeightInputs == 0..MaxHeight
UptimeInputs == (0..MaxUptime) \cup {3599, 3600, 3661, 86399, 86400, 90000, 863999, 864000,
                                     8640000, 2147483647}

MapCalls == {[fn |-> "mapValueToY", args |-> <<p, t, h>>] :
               p \in PctInputs, t \in TopInputs, h \in HeightInputs}
UptimeCalls == {[fn |-> "drawUptimeTopRight", args |-> <<u>>] : u \in UptimeInputs}

InitCalls == DeviceInit /\ called \in MapCalls \cup UptimeCalls /\ returned = NoRet /\ twin = NoTwin

callMapValueToY ==
  /\ called.fn = "mapValueToY" /\ returned = NoRet
  /\ returned' = [of |-> "mapValueToY",
                  y |-> mapValueToY(called.args[1], called.args[2], called.args[3]),
                  text |-> <<>>]
  /\ UNCHANGED <<devicevars, called, twin>>

callDrawUptimeTopRight ==
  /\ called.fn = "drawUptimeTopRight" /\ returned = NoRet
  /\ returned' = [of |-> "drawUptimeTopRight", y |-> 0,
                  text |-> drawUptimeTopRight(called.args[1])]
  /\ UNCHANGED <<devicevars, called, twin>>

NextCalls ==
  \/ callMapValueToY
  \/ callDrawUptimeTopRight

SpecCalls == InitCalls /\ [][NextCalls]_vars

\* C19: map_to_pixel(p, top, h) is top + h for every p <= 0, top for every
\* p >= 100, and does not increase with p over 0..100, for every top and
\* every height h >= 0.  In single precision 100.0f * (h / 100.0f) falls
\* short of h for some heights, and the cast truncates.
C19_MapToPixel ==
  (returned.of = "mapValueToY") =>
    LET p == called.args[1]
        top == called.args[2]
        h == called.args[3]
    IN /\ p <= 0 => returned.y = top + h
       /\ p >= 100 => returned.y = top
       /\ (0 <= p /\ p < 100) => mapValueToY(p + 1, top, h) <= returned.y

\* reading a text back
IsDigit(c) == \E d \in 1..10 : Digits[d] = c
DigitValue(c) == (CHOOSE d \in 1..10 : Digits[d] = c) - 1
RECURSIVE NumberRead(_)
NumberRead(text) ==
  IF text = <<>> THEN 0
  ELSE 10 * NumberRead(SubSeq(text, 1, Len(text) - 1)) + DigitValue(text[Len(text)])
\* text is HH:MM:SS, each part two digits
IsClock(text) ==
  /\ Len(text) = 8 /\ text[3] = ":" /\ text[6] = ":"
  /\ \A i \in {1, 2, 4, 5, 7, 8} : IsDigit(text[i])

\* C20: for every uptime in whole seconds the text is HH:MM:SS with hours
\* (0-23), minutes and seconds of exactly two zero-padded digits each,
\* prefixed by "<days>d " iff the number of whole days is above zero; 0 gives
\* 00:00:00, 3661 gives 01:01:01 and 90000 gives 1d 01:00:00.
C20_UptimeText ==
  (returned.of = "drawUptimeTopRight") =>
    LET u == called.args[1]
        text == returned.text
        n == Len(text)
        clock == SubSeq(text, n - 7, n)
        prefix == SubSeq(text, 1, n - 8)
        days == u \div 86400
    IN /\ n >= 8 /\ IsClock(clock)
       /\ NumberRead(SubSeq(clock, 1, 2)) = (u % 86400) \div 3600
       /\ NumberRead(SubSeq(clock, 1, 2)) \in 0..23
       /\ NumberRead(SubSeq(clock, 4, 5)) = (u % 3600) \div 60
       /\ NumberRead(SubSeq(clock, 7, 8)) = u % 60
       /\ (days = 0) <=> (prefix = <<>>)
       /\ days > 0 =>
            LET m == Len(prefix)
            IN /\ m >= 3 /\ prefix[m] = " " /\ prefix[m - 1] = "d"
               /\ \A i \in 1..(m - 2) : IsDigit(prefix[i])
               /\ prefix[1] /= "0"
               /\ NumberRead(SubSeq(prefix, 1, m - 2)) = days
       /\ u = 0 => text = <<"0", "0", ":", "0", "0", ":", "0", "0">>
       /\ u = 3661 => text = <<"0", "1", ":", "0", "1", ":", "0", "1">>
       /\ u = 90000 => text = <<"1", "d", " ", "0", "1", ":", "0", "0", ":", "0", "0">>

\* ten days less a second: a two-digit hour, no padding needed anywhere
C20_Witness ==
  /\ returned.of = "drawUptimeTopRight" /\ called.args = <<863999>>
  /\ returned.text = <<"9", "d", " ", "2", "3", ":", "5", "9", ":", "5", "9">>

----------------------------------------------------------------------------
\* Two runs of the device side by side.  Each step of the first run is
\* replayed on the second: same event (stored file, save, reset, association
\* result, touch report, duration of the iteration, HTTP status code) but a
\* response body of its own.  The state variables hold the run that steps;
\* twin holds the telemetry of the other run, the state the step started in
\* and the state it led to.  After the replay the runs change places.

\* what the device keeps besides telemetry
CtrlRecord ==
  [s_saved_ssid |-> s_saved_ssid, s_saved_password |-> s_saved_password,
   s_saved_ip |-> s_saved_ip, s_saved_port |-> s_saved_port,
   s_saved_auth |-> s_saved_auth, s_config_complete |-> s_config_complete,
   s_wifi_connected |-> s_wifi_connected,
   s_success_start_time |-> s_success_start_time,
   s_showing_success |-> s_showing_success,
   s_stats_active |-> s_stats_active,
   s_last_stats_update |-> s_last_stats_update, s_layout |-> s_layout,
   s_touch_down |-> s_touch_down, pc |-> pc, caller |-> caller, now |-> now,
   wifi_mode |-> wifi_mode, dns_running |-> dns_running,
   last_poll_at |-> last_poll_at, loops |-> loops, requests |-> requests,
   last_touched |-> last_touched, presses |-> presses, toggles |-> toggles]
\* the telemetry and what is drawn from it
DataRecord ==
  [s_cpu_hist |-> s_cpu_hist, s_ram_hist |-> s_ram_hist,
   s_hist_idx |-> s_hist_idx, s_hist_full |-> s_hist_full,
   s_disk_used_pct |-> s_disk_used_pct,
   s_uptime_seconds |-> s_uptime_seconds,
   s_last_timestamp_iso |-> s_last_timestamp_iso, cpu_log |-> cpu_log,
   ram_log |-> ram_log, events |-> events]

\* iterations of loop() each of the two runs may start
TwinLoops == 2

TwinInputs ==
  {[act |-> "setup", has_file |-> f, stored |-> c] : f \in BOOLEAN, c \in {FullConfig}}
  \cup {[act |-> "connectToWiFi", assoc |-> a] : a \in {1, MAX_ATTEMPTS + 1}}
  \cup {[act |-> "loop_success"], [act |-> "loop_poll"], [act |-> "handleReset"]}
  \cup {[act |-> "loop_touch", touched |-> t] : t \in BOOLEAN}
  \cup {[act |-> "loop_idle", extra |-> e] : e \in ExtraDelays}
  \cup {[act |-> "handleSave", json_ok |-> TRUE, body |-> c, file_ok |-> TRUE] :
          c \in {FullConfig, Config("far", "pw", "10.0.0.2", "8080", "tok")}}

\* the responses a step with input i may receive
TwinReplies(i) ==
  IF i.act \in {"connectToWiFi", "loop_success", "loop_poll"}
  THEN Replies ELSE {Reply(0, FALSE, EmptyBody)}

TwinStep(i, r) ==
  \/ i.act = "setup" /\ setup(i.has_file, i.stored)
  \/ i.act = "connectToWiFi" /\ i.assoc \in AssocTimes(s_saved_ssid) /\ connectToWiFi(i.assoc, r)
  \/ i.act = "loop_success" /\ loops < TwinLoops /\ loop_success(r)
  \/ i.act = "loop_touch" /\ loop_touch(i.touched)
  \/ i.act = "loop_poll" /\ loop_poll(r)
  \/ i.act = "loop_idle" /\ loop_idle(i.extra)
  \/ i.act = "handleSave" /\ requests < MaxRequests /\ handleSave(i.json_ok, i.body, i.file_ok)
  \/ i.act = "handleReset" /\ requests < MaxRequests /\ handleReset

InitTwin ==
  /\ DeviceInit /\ called = NoCall /\ returned = NoRet
  /\ twin = [phase |-> "first", other |-> DataRecord, before |-> CtrlRecord,
             after |-> CtrlRecord, mode |-> Mode, input |-> [act |-> "none"], code |-> 0]

\* the first run takes a step
TwinFirst ==
  /\ twin.phase = "first"
  /\ \E i \in TwinInputs : \E r \in TwinReplies(i) :
       /\ TwinStep(i, r)
       /\ twin' = [phase |-> "rewind", other |-> twin.other, before |-> CtrlRecord,
                   after |-> CtrlRecord', mode |-> Mode', input |-> i, code |-> r.code]

\* back to where the step started, with the telemetry of the second run
TwinRewind ==
  /\ twin.phase = "rewind"
  /\ s_saved_ssid' = twin.before.s_saved_ssid
  /\ s_saved_password' = twin.before.s_saved_password
  /\ s_saved_ip' = twin.before.s_saved_ip
  /\ s_saved_port' = twin.before.s_saved_port
  /\ s_saved_auth' = twin.before.s_saved_auth
  /\ s_config_complete' = twin.before.s_config_complete
  /\ s_wifi_connected' = twin.before.s_wifi_connected
  /\ s_success_start_time' = twin.before.s_success_start_time
  /\ s_showing_success' = twin.before.s_showing_success
  /\ s_stats_active' = twin.before.s_stats_active
  /\ s_last_stats_update' = twin.before.s_last_stats_update
  /\ s_layout' = twin.before.s_layout /\ s_touch_down' = twin.before.s_touch_down
  /\ pc' = twin.before.pc /\ caller' = twin.before.caller /\ now' = twin.before.now
  /\ wifi_mode' = twin.before.wifi_mode /\ dns_running' = twin.before.dns_running
  /\ last_poll_at' = twin.before.last_poll_at /\ loops' = twin.before.loops
  /\ requests' = twin.before.requests /\ last_touched' = twin.before.last_touched
  /\ presses' = twin.before.presses /\ toggles' = twin.before.toggles
  /\ s_cpu_hist' = twin.other.s_cpu_hist /\ s_ram_hist' = twin.other.s_ram_hist
  /\ s_hist_idx' = twin.other.s_hist_idx /\ s_hist_full' = twin.other.s_hist_full
  /\ s_disk_used_pct' = twin.other.s_disk_used_pct
  /\ s_uptime_seconds' = twin.other.s_uptime_seconds
  /\ s_last_timestamp_iso' = twin.other.s_last_timestamp_iso
  /\ cpu_log' = twin.other.cpu_log /\ ram_log' = twin.other.ram_log
  /\ events' = twin.other.events
  /\ twin' = [twin EXCEPT !.phase = "second", !.other = DataRecord]
  /\ UNCHANGED callvars

\* the second run takes the same step, with the same status code
TwinSecond ==
  /\ twin.phase = "second"
  /\ \E r \in {x \in TwinReplies(twin.input) : x.code = twin.code} :
       TwinStep(twin.input, r)
  /\ twin' = [twin EXCEPT !.phase = "first", !.before = CtrlRecord',
                         !.input = [act |-> "none"], !.code = 0]

NextTwin ==
  \/ TwinFirst
  \/ TwinRewind
  \/ TwinSecond

SpecTwin == InitTwin /\ [][NextTwin]_vars

\* C17: device-mode transitions do not depend on telemetry content: two
\* runs that receive the same events but different telemetry payloads go
\* through the same device modes.  After every replayed step the second run
\* is in the mode, and in the whole non-telemetry state, the first run
\* reached, and the second run can always take the step the first run took.
C17_ModesIgnoreTelemetry ==
  /\ twin.phase = "first" => (Mode = twin.mode /\ CtrlRecord = twin.after)
  /\ twin.phase = "second" => ENABLED TwinSecond

\* both runs are in Monitoring after the same events, one with two samples
\* stored and the other with none
C17_Witness ==
  /\ twin.phase = "first" /\ Mode = "Monitoring" /\ twin.mode = "Monitoring"
  /\ {Len(cpu_log), Len(twin.other.cpu_log)} = {0, 2}
  /\ loops >= 1

----------------------------------------------------------------------------
\* a step of connectToWiFi in which the device associates, and so calls
\* pairWithSentinelServer, which gets the reply r if it issues a request
PairStep(assoc, r) ==
  /\ connectToWiFi(assoc, r)
  /\ StatusConnected(assoc, Waits(assoc))

PairRequested(es) == \E i \in DOMAIN es : es[i] = HttpGet("pair")
PairShown(es, what) == \E i \in DOMAIN es : es[i] = Screen(what)

\* C21: the one-shot pairing request never modifies the sample history
\* (samples, cursor, wrap flag) or the scalar telemetry, whatever its
\* outcome; it returns success exactly when the server answered 200, and
\* when host, port or credential is empty it returns failure without
\* issuing a request.
C21_PairIsReadOnly ==
  [][\A assoc \in 0..MAX_ATTEMPTS, r \in GoodReplies \cup FailedReplies :
       PairStep(assoc, r)
         => /\ UNCHANGED <<histvars, scalvars>>
            /\ pairReturn(r) <=> (PairRequested(events') /\ r.code = HTTP_OK)
            /\ pairReturn(r) <=> PairShown(events', "paired")
            /\ ~pairReturn(r) <=> PairShown(events', "pairing failed")
            /\ ~ServerConfigured => (~pairReturn(r) /\ ~PairRequested(events'))
            /\ ServerConfigured => PairRequested(events')]_vars

\* the device paired again after a save, with a sample already in the history
C21_Witness ==
  /\ Mode = "Pairing" /\ PairShown(events, "paired") /\ PairRequested(events)
  /\ s_hist_idx > 0 /\ requests = 1

----------------------------------------------------------------------------
Rendered(es) == \E i \in DOMAIN es : es[i].op = "render"

\* C22: reading the history is idempotent: a step that renders a layout
\* (charts or clock, on a layout toggle or on entering the main screen)
\* without storing a sample leaves samples, cursor, wrap flag and scalar
\* telemetry unchanged, so the snapshot a second render reads is the sequence
\* the first one read.
C22_RenderIsIdempotent ==
  [][(Rendered(events') /\ ~RenderedByPoll(events'))
       => /\ UNCHANGED <<histvars, scalvars>>
          /\ Snapshot(s_cpu_hist, s_hist_idx, s_hist_full)'
               = Snapshot(s_cpu_hist, s_hist_idx, s_hist_full)
          /\ Snapshot(s_ram_hist, s_hist_idx, s_hist_full)'
               = Snapshot(s_ram_hist, s_hist_idx, s_hist_full)]_vars

\* the layout was toggled a second time, back to the charts, over a history
\* that has wrapped and holds a reading below zero
C22_Witness ==
  /\ events = <<Render(LAYOUT_CHARTS)>> /\ pc = "loop_poll"
  /\ toggles >= 2 /\ s_hist_full /\ s_hist_idx > 0
  /\ \E i \in DOMAIN s_cpu_hist : s_cpu_hist[i] < 0

----------------------------------------------------------------------------
\* C23: the flag of the success screen is never set while the device is not
\* associated to a network, also after a configuration reset or a failed
\* re-association: it is set only when an iteration of loop() is about to
\* start, and the first statement group of that iteration clears it.
C23_SuccessOnlyWhileConnected ==
  /\ [](s_showing_success => (s_wifi_connected /\ pc = "loop_success"))
  /\ [][\A r \in GoodReplies \cup PartialReplies \cup FailedReplies :
          loop_success(r) => ~s_showing_success']_vars

\* the success screen is shown a second time, after a save made in
\* Monitoring led to a new association
C23_Witness ==
  /\ s_showing_success /\ s_wifi_connected /\ pc = "loop_success"
  /\ s_stats_active /\ requests = 1 /\ loops >= 1
  /\ s_success_start_time > SETUP_DELAY_MS + CONNECT_DELAY_MS

----------------------------------------------------------------------------
\* the positions drawLineChartArea reads for a history with this cursor and
\* wrap flag: getVal(i) for every i below the number of points
ReadPositions(idx, full) ==
  IF Points(idx, full) <= 1 THEN {}
  ELSE {Pos(idx, full, i) : i \in 0..(Points(idx, full) - 1)}

Appends == Len(cpu_log') > Len(cpu_log)

\* C24: the write cursor always satisfies 0 <= cursor < 120, so every write
\* (at the cursor) and every read of the renderer (index i before the wrap,
\* (cursor + i) mod 120 after it) is inside the 120-element buffers; the
\* k-th sample is written at position k mod 120, and before the first wrap
\* the renderer reads only positions that have been written.
C24_CursorInBounds ==
  /\ [](/\ s_hist_idx \in 0..(HIST_SIZE - 1)
        /\ DOMAIN s_cpu_hist = 0..(HIST_SIZE - 1)
        /\ DOMAIN s_ram_hist = 0..(HIST_SIZE - 1)
        /\ ReadPositions(s_hist_idx, s_hist_full) \subseteq 0..(HIST_SIZE - 1)
        /\ ~s_hist_full =>
             ReadPositions(s_hist_idx, s_hist_full) \subseteq 0..(Len(cpu_log) - 1))
  /\ [][Appends
          => /\ s_hist_idx \in DOMAIN s_cpu_hist /\ s_hist_idx \in DOMAIN s_ram_hist
             /\ s_hist_idx = Len(cpu_log) % HIST_SIZE
             /\ s_cpu_hist'[s_hist_idx] = cpu_log'[Len(cpu_log')]
             /\ s_ram_hist'[s_hist_idx] = ram_log'[Len(ram_log')]]_vars

\* the history has wrapped and the cursor is back in the middle of the
\* buffers, so the renderer reads around their end
C24_Witness ==
  /\ s_hist_full /\ s_hist_idx = 5 /\ Len(cpu_log) = HIST_SIZE + 5
  /\ Pos(s_hist_idx, s_hist_full, HIST_SIZE - 1) = 4
  /\ events /= <<>> /\ events[Len(events)].op = "render"

----------------------------------------------------------------------------
\* The device moved to another metrics server while it collects samples:
\* once in the run the operator saves the configuration of the other server,
\* directly or after a reset.  A server may be out of reach while the history
\* holds fewer than two samples, and answers every poll afterwards.

\* iterations of loop() that store no sample
SpareLoops == 2

OtherServer == Config("net", "pw", "10.0.0.9", "9090", "tok2")

KeepReplies ==
  PatternReplies \cup (IF Points(s_hist_idx, s_hist_full) <= 1 THEN ServerDown ELSE {})

KeepBoot == setup(TRUE, FullConfig) /\ UNCHANGED twin
KeepAssociate == \E r \in GoodReplies : connectToWiFi(1, r) /\ UNCHANGED twin
KeepSuccess ==
  /\ Len(cpu_log) < HistAppends /\ loops < Len(cpu_log) + SpareLoops
  /\ \E r \in KeepReplies : loop_success(r)
  /\ UNCHANGED twin
KeepTouch == loop_touch(FALSE) /\ UNCHANGED twin
KeepPoll == \E r \in KeepReplies : loop_poll(r) /\ UNCHANGED twin
KeepIdle == loop_idle(STATS_INTERVAL_MS - LOOP_DELAY_MS) /\ UNCHANGED twin
KeepSave ==
  /\ s_saved_ip /= OtherServer.ip
  /\ handleSave(TRUE, OtherServer, TRUE)
  /\ UNCHANGED twin
KeepReset == s_saved_ip = FullConfig.ip /\ handleReset /\ UNCHANGED twin

NextKeep ==
  \/ KeepBoot
  \/ KeepAssociate
  \/ KeepSuccess
  \/ KeepTouch
  \/ KeepPoll
  \/ KeepIdle
  \/ KeepSave
  \/ KeepReset

SpecKeep == Init /\ [][NextKeep]_vars

\* the device is in Monitoring on the other server, which it was given after
\* a reset, and its last step drew the charts
RenderedAfterRepairing ==
  /\ Mode = "Monitoring" /\ s_saved_ip = OtherServer.ip
  /\ requests > 1 /\ Rendered(events)

\* C25: the sample history is never cleared: a step that stores no sample
\* (configuration reset, configuration save, re-association, re-entry into
\* Monitoring) changes neither the cursor nor the wrap flag nor a stored
\* sample, a step that stores one replaces only the sample at the cursor
\* and advances the cursor, the wrap flag once true stays true, and the
\* samples collected before a reset are part of the snapshot rendered after
\* pairing with the new server: that snapshot is the most recent samples,
\* whichever server they came from.
C25_HistoryNeverCleared ==
  /\ [][~Appends => UNCHANGED histvars]_vars
  /\ [][Appends
          => /\ s_hist_idx' = NextIdx(s_hist_idx)
             /\ \A i \in DOMAIN s_cpu_hist :
                  i /= s_hist_idx => /\ s_cpu_hist'[i] = s_cpu_hist[i]
                                     /\ s_ram_hist'[i] = s_ram_hist[i]]_vars
  /\ [][s_hist_full => s_hist_full']_vars
  /\ [](RenderedAfterRepairing =>
          LET k == Min(Len(cpu_log), HIST_SIZE)
          IN /\ Snapshot(s_cpu_hist, s_hist_idx, s_hist_full) = LastN(cpu_log, k)
             /\ Snapshot(s_ram_hist, s_hist_idx, s_hist_full) = LastN(ram_log, k))

====
